---- MODULE Spec2Model ----
(***************************************************************************)
(* Model of Overview.py: a streaming aggregation of a pipe-separated file  *)
(* inventory into per-(drive, top-level folder) totals.                    *)
(*                                                                         *)
(* Python strings are modelled as sequences of one-character strings, so   *)
(* that strip, split, join, membership and digit parsing are computed as   *)
(* the code computes them.  A row is a sequence of such strings.           *)
(***************************************************************************)
EXTENDS Integers, Sequences, FiniteSets, TLC

\* ------------------------------------------------------------------ bounds
MaxRows == 3
MaxChunkSize == 2

\* ------------------------------------------------------- string primitives
BS == "\\"
Whitespace == {" "}
Digits == {"0", "1", "2", "3", "4", "5", "6", "7", "8", "9"}
Unknown == <<"U", "n", "k", "n", "o", "w", "n">>
NotApplicable == <<"N", "o", "t", " ", "A", "p", "p", "l", "i", "c", "a", "b", "l", "e">>
None == <<"<None>">>

Contains(s, c) == \E i \in 1..Len(s) : s[i] = c

RECURSIVE LStrip(_, _)
LStrip(s, cs) == IF s # <<>> /\ Head(s) \in cs THEN LStrip(Tail(s), cs) ELSE s

RECURSIVE RStrip(_, _)
RStrip(s, cs) ==
  IF s # <<>> /\ s[Len(s)] \in cs THEN RStrip(SubSeq(s, 1, Len(s) - 1), cs) ELSE s

\* str.strip(chars)
StripChars(s, cs) == RStrip(LStrip(s, cs), cs)

\* str.strip()
Strip(s) == StripChars(s, Whitespace)

\* str.split(sep) for a one-character separator: always at least one part,
\* adjacent separators give empty parts.
RECURSIVE SplitFrom(_, _, _)
SplitFrom(s, sep, cur) ==
  IF s = <<>> THEN <<cur>>
  ELSE IF Head(s) = sep THEN <<cur>> \o SplitFrom(Tail(s), sep, <<>>)
  ELSE SplitFrom(Tail(s), sep, Append(cur, Head(s)))

Split(s, sep) == SplitFrom(s, sep, <<>>)

\* sep.join(parts)
RECURSIVE Join(_, _)
Join(parts, sep) ==
  IF parts = <<>> THEN <<>>
  ELSE IF Len(parts) = 1 THEN parts[1]
  ELSE parts[1] \o <<sep>> \o Join(Tail(parts), sep)

\* re.fullmatch(r'\d+', s)
IsDigits(s) == s # <<>> /\ \A i \in 1..Len(s) : s[i] \in Digits

DigitVal(c) ==
  CASE c = "0" -> 0 [] c = "1" -> 1 [] c = "2" -> 2 [] c = "3" -> 3 [] c = "4" -> 4
    [] c = "5" -> 5 [] c = "6" -> 6 [] c = "7" -> 7 [] c = "8" -> 8 [] c = "9" -> 9

\* int(s) for a string of decimal digits
RECURSIVE ParseInt(_)
ParseInt(s) ==
  IF s = <<>> THEN 0 ELSE 10 * ParseInt(SubSeq(s, 1, Len(s) - 1)) + DigitVal(s[Len(s)])

\* ------------------------------------------------------------ row extractor
MinColumns == 3

\* line 45: not row or len(row) < 3
TooFewColumns(row) == row = <<>> \/ Len(row) < MinColumns

\* lines 92-96: first field holding both a backslash and a period, stripped
RECURSIVE FindFullName(_)
FindFullName(row) ==
  IF row = <<>> THEN None
  ELSE IF Contains(Head(row), BS) /\ Contains(Head(row), ".") THEN Strip(Head(row))
  ELSE FindFullName(Tail(row))

\* lines 122-127: first field that is all digits once quotes are stripped
LengthCandidate(part) == StripChars(StripChars(part, {"\""}), {"'"})

\* The scan without its break: the last numeric field wins.
RECURSIVE ParseLengthLastMatch(_)
ParseLengthLastMatch(row) ==
  IF row = <<>> THEN 0
  ELSE IF IsDigits(LengthCandidate(row[Len(row)])) THEN ParseInt(LengthCandidate(row[Len(row)]))
  ELSE ParseLengthLastMatch(SubSeq(row, 1, Len(row) - 1))

RECURSIVE ParseLength(_)
ParseLength(row) ==
  IF row = <<>> THEN 0
  ELSE IF IsDigits(LengthCandidate(Head(row))) THEN ParseInt(LengthCandidate(Head(row)))
  ELSE ParseLength(Tail(row))

\* ----------------------------------------------------------- path decomposer
\* line 103
PathParts(full_name) == Split(Strip(full_name), BS)

MinPathParts == 3

\* The length test one short.
MalformedOffByOne(path_parts) == Len(path_parts) < MinPathParts - 1

\* line 104
Malformed(path_parts) == Len(path_parts) < MinPathParts

\* line 108
Directory(path_parts) ==
  StripChars(Join(SubSeq(path_parts, 1, Len(path_parts) - 1), BS), {BS})

\* line 111
DirParts(full_name) == Split(Directory(PathParts(full_name)), BS)

\* lines 112-117
Drive(parts) ==
  IF Len(parts) >= 2 THEN <<BS, BS>> \o parts[1] \o <<BS>> \o parts[2]
  ELSE Join(parts, BS)

TopLevelFolder(parts) ==
  IF Len(parts) >= 2 /\ Len(parts) > 2 THEN parts[3] ELSE NotApplicable

\* The pop without its test.
PopsDeepestAlways(parts) == TRUE

\* line 132: the test that decides the pop looks at parts[-1]
PopsDeepest(parts) == Contains(parts[Len(parts)], ".")

\* lines 130-134: Python index i (3 <= i < len(parts)) is TLA+ index i + 1
Subfolders(parts) ==
  IF Len(parts) > 3
  THEN LET all == [k \in 1..(Len(parts) - 3) |-> Join(SubSeq(parts, 4, k + 3), BS)]
           kept == IF PopsDeepest(parts) THEN SubSeq(all, 1, Len(all) - 1) ELSE all
       IN  {kept[k] : k \in 1..Len(kept)}
  ELSE {}

\* The decision without the length test of line 104.
RowOutcomeUnchecked(row) ==
  LET full_name == FindFullName(row)
  IN  IF full_name = None \/ full_name = <<>> THEN "missing_fullname" ELSE "ok"

\* lines 89-106: what process_chunk decides for one buffered row
RowOutcome(row) ==
  LET full_name == FindFullName(row)
  IN  IF full_name = None \/ full_name = <<>> THEN "missing_fullname"
      ELSE IF Malformed(PathParts(full_name)) THEN "malformed"
      ELSE "ok"

\* ------------------------------------------------------------------ inputs
\* Rows as csv.reader yields them (fields already split on '|').
\* line 39: the first line, skipped whatever it holds
HeaderRow ==
  << <<"S", "e", "r", "v", "e", "r">>,
     <<"F", "u", "l", "l", "N", "a", "m", "e">>,
     <<"L", "e", "n", "g", "t", "h">> >>

RowFile1 ==
  << <<"S", "R", "V", "1">>,
     <<BS, BS, "S", "R", "V", "1", BS, "S", "h", "a", "r", "e", "A", BS, "R", "e", "p", "o", "r", "t", "s", BS, "2", "0", "2", "3", BS, "f", "i", "l", "e", "1", ".", "t", "x", "t">>,
     <<"1", "0", "0", "0">> >>

RowFile2 ==
  << <<"S", "R", "V", "1">>,
     <<BS, BS, "S", "R", "V", "1", BS, "S", "h", "a", "r", "e", "A", BS, "R", "e", "p", "o", "r", "t", "s", BS, "2", "0", "2", "4", BS, "f", "i", "l", "e", "2", ".", "t", "x", "t">>,
     <<"2", "0", "0", "0">> >>

RowTwoFields ==
  << <<"a">>,
     <<"b">> >>

RowEmpty == <<>>

RowNoPath ==
  << <<"x">>,
     <<"9">>,
     <<"z">> >>

RowShortPath ==
  << <<"s">>,
     <<"a", BS, "f", ".", "t">>,
     <<"5">> >>

RowSingleDir ==
  << <<"s">>,
     <<BS, BS, "a", BS, "f", ".", "t">>,
     <<"7">> >>

RowDottedDir ==
  << <<" ", "s", " ">>,
     <<BS, BS, "h", BS, "s", BS, "t", BS, "a", BS, "v", ".", "1", BS, "f", ".", "t">>,
     <<"'", "3", "'">> >>

RowDeep ==
  << <<>>,
     <<BS, BS, "h", BS, "s", BS, "t", BS, "a", BS, "b", BS, "f", ".", "t">>,
     <<"x", "1">>,
     <<"\"">> >>

RowDigitsFirst ==
  << <<"1", "2">>,
     <<BS, BS, "h", BS, "s", BS, "f", ".", "t">>,
     <<"3", "4">> >>

RowPool ==
  {RowFile1, RowFile2, RowTwoFields, RowEmpty, RowNoPath,
   RowShortPath, RowSingleDir, RowDottedDir, RowDeep, RowDigitsFirst}

\* ---------------------------------------------------------------- aggregator
\* lines 108-134: what process_chunk derives from a row it aggregates
Contribution(row) ==
  LET parts == DirParts(FindFullName(row))
  IN  [drive |-> Drive(parts), folder |-> TopLevelFolder(parts),
       length |-> ParseLength(row), subfolders |-> Subfolders(parts)]

\* Lines 89-134 are a pure function of the row: the rows of the pool are
\* decomposed once, and the actions look the result up.
Decomposed ==
  [row \in RowPool |->
     [outcome |-> RowOutcome(row),
      contribution |-> IF RowOutcome(row) = "ok" THEN Contribution(row) ELSE <<>>]]

\* folder_data is the defaultdict in insertion order: a sequence of buckets.
KeyIndex(fd, drive, folder) ==
  {i \in 1..Len(fd) : fd[i].drive = drive /\ fd[i].folder = folder}

\* lines 119-137 for a row that reached the aggregation
ApplyRow(fd, row) ==
  LET c == Decomposed[row].contribution
      hit == KeyIndex(fd, c.drive, c.folder)
  IN  IF hit = {}
      THEN Append(fd, [drive |-> c.drive, folder |-> c.folder, size |-> c.length,
                       subfolders |-> c.subfolders, files |-> 1])
      ELSE LET i == CHOOSE j \in hit : TRUE
           IN  [fd EXCEPT ![i] = [drive |-> c.drive, folder |-> c.folder,
                                  size |-> fd[i].size + c.length,
                                  subfolders |-> fd[i].subfolders \cup c.subfolders,
                                  files |-> fd[i].files + 1]]

\* ------------------------------------------------------------ report emitter
BytesPerGB == 1073741824

\* line 66: round(size / 1024**3, 2), as a number of hundredths.  The quotient
\* is exact in binary floating point, and round() takes an exact tie to even.
RoundGB(size) ==
  LET q == (size * 100) \div BytesPerGB
      r == (size * 100) % BytesPerGB
      half == BytesPerGB \div 2
  IN  IF r > half \/ (r = half /\ q % 2 = 1) THEN q + 1 ELSE q

\* ------------------------------------------------------------------- files
\* Data rows that may follow the header: every sequence of at most MaxRows rows.
DataRows == UNION {[1..n -> RowPool] : n \in 0..MaxRows}

\* The files the run may be given: an empty file, or a header and data rows.
Files == {<<>>} \cup {<<HeaderRow>> \o d : d \in DataRows}

ChunkSizes == 1..MaxChunkSize

\* ------------------------------------------------------------------- state
VARIABLES
  file,               \* rows of the input file, header first
  folderExists,       \* the output folder exists on disk
  inputOpenable,      \* open(input_file) succeeds
  chunk_size,         \* line 31
  pc,                 \* position of process_csv
  reader_pos,         \* rows the csv reader has yielded so far
  line_num,           \* line 40, 44
  chunk,              \* line 42: buffered (line_num, row) pairs
  chunk_idx,          \* position of process_chunk's loop in the buffer
  chunk_server_name,  \* process_chunk's own server_name (a parameter)
  server_name,        \* process_csv's server_name (line 33)
  folder_data,        \* line 32
  processed,          \* line numbers process_chunk has finished, in order
  error_log,          \* lines appended to error_log_file
  process_log,        \* lines appended to log_file
  report              \* rows written to the output file; <<>> when not written

vars == <<file, folderExists, inputOpenable, chunk_size, pc, reader_pos, line_num,
          chunk, chunk_idx, chunk_server_name, server_name, folder_data,
          processed, error_log, process_log, report>>

env == <<file, inputOpenable, chunk_size>>

Init ==
  /\ file \in Files
  /\ folderExists \in BOOLEAN
  /\ inputOpenable \in BOOLEAN
  /\ chunk_size \in ChunkSizes
  /\ pc = "start"
  /\ reader_pos = 0
  /\ line_num = 0
  /\ chunk = <<>>
  /\ chunk_idx = 1
  /\ chunk_server_name = Unknown
  /\ server_name = Unknown
  /\ folder_data = <<>>
  /\ processed = <<>>
  /\ error_log = <<>>
  /\ process_log = <<>>
  /\ report = <<>>

\* ----------------------------------------------------------------- actions
\* line 29 with the folder present: the start message reaches the process log.
StartLog ==
  /\ pc = "start"
  /\ folderExists
  /\ process_log' = Append(process_log, "starting")
  /\ pc' = "open"
  /\ UNCHANGED <<env, folderExists, reader_pos, line_num, chunk, chunk_idx,
                 chunk_server_name, server_name, folder_data, processed,
                 error_log, report>>

\* line 29 with the folder absent: open(log_file, 'a') raises before line 35
\* is reached; the handler (lines 81-84) opens error_log_file in the same
\* absent folder, which raises again, out of process_csv.
StartLogFails ==
  /\ pc = "start"
  /\ ~folderExists
  /\ pc' = "raised"
  /\ UNCHANGED <<env, folderExists, reader_pos, line_num, chunk, chunk_idx,
                 chunk_server_name, server_name, folder_data, processed,
                 error_log, process_log, report>>

\* lines 31-42: os.makedirs(exist_ok=True), open the input, skip the header.
OpenInput ==
  /\ pc = "open"
  /\ inputOpenable
  /\ folderExists' = TRUE
  /\ reader_pos' = IF file = <<>> THEN 0 ELSE 1
  /\ line_num' = 1
  /\ chunk' = <<>>
  /\ server_name' = Unknown
  /\ folder_data' = <<>>
  /\ pc' = "read"
  /\ UNCHANGED <<env, chunk_idx, chunk_server_name, processed, error_log,
                 process_log, report>>

\* line 37 raising: lines 81-84 write two lines to the error log and the run
\* ends without a report.
OpenInputFails ==
  /\ pc = "open"
  /\ ~inputOpenable
  /\ folderExists' = TRUE
  /\ error_log' = error_log \o <<[line |-> 0, reason |-> "error_occurred"],
                                 [line |-> 0, reason |-> "error_message"]>>
  /\ pc' = "done"
  /\ UNCHANGED <<env, reader_pos, line_num, chunk, chunk_idx, chunk_server_name,
                 server_name, folder_data, processed, process_log, report>>

\* The flush test with > for >=.
ChunkOverfull(c, size) == Len(c) > size

\* line 51
ChunkFull(c, size) == Len(c) >= size

\* lines 43-53: one iteration of the reader loop.
ReadRow ==
  /\ pc = "read"
  /\ reader_pos < Len(file)
  /\ LET row == file[reader_pos + 1]
         n == line_num + 1
     IN  /\ reader_pos' = reader_pos + 1
         /\ line_num' = n
         /\ IF TooFewColumns(row)
            THEN /\ error_log' = Append(error_log, [line |-> n, reason |-> "too_few_columns"])
                 /\ UNCHANGED <<chunk, pc, chunk_idx, chunk_server_name>>
            ELSE /\ chunk' = Append(chunk, [line_num |-> n, row |-> row])
                 /\ error_log' = error_log
                 /\ IF ChunkFull(chunk', chunk_size)
                    THEN /\ pc' = "chunk"
                         /\ chunk_idx' = 1
                         /\ chunk_server_name' = server_name
                    ELSE UNCHANGED <<pc, chunk_idx, chunk_server_name>>
  /\ UNCHANGED <<env, folderExists, server_name, folder_data, processed,
                 process_log, report>>

\* The final partial batch forgotten.
FinalChunkForgotten(c) == FALSE

\* line 56
FinalChunkPending(c) == c # <<>>

\* lines 55-57: the reader is exhausted.
EndOfStream ==
  /\ pc = "read"
  /\ reader_pos >= Len(file)
  /\ IF FinalChunkPending(chunk)
     THEN /\ pc' = "final_chunk"
          /\ chunk_idx' = 1
          /\ chunk_server_name' = server_name
     ELSE /\ pc' = "write"
          /\ UNCHANGED <<chunk_idx, chunk_server_name>>
  /\ UNCHANGED <<env, folderExists, reader_pos, line_num, chunk, server_name,
                 folder_data, processed, error_log, process_log, report>>

\* The buffer visited back to front.
ChunkEntryFromEnd(c, i) == c[Len(c) + 1 - i]

\* line 87: the loop visits the buffer front to back
ChunkEntry(c, i) == c[i]

\* lines 89-90
LearnServerName(current, row) ==
  IF current = <<>> \/ current = Unknown THEN Strip(row[1]) ELSE current

\* lines 98-106
SkipReason(row) == Decomposed[row].outcome

\* lines 87-140: one iteration of process_chunk's loop; after the last buffered
\* row the call returns (line 53 empties the buffer, or the report follows).
ProcessRow ==
  /\ pc \in {"chunk", "final_chunk"}
  /\ LET entry == ChunkEntry(chunk, chunk_idx)
         row == entry.row
     IN  /\ chunk_server_name' = LearnServerName(chunk_server_name, row)
         /\ IF Decomposed[row].outcome = "ok"
            THEN /\ folder_data' = ApplyRow(folder_data, row)
                 /\ error_log' = error_log
            ELSE /\ error_log' = Append(error_log, [line |-> entry.line_num,
                                                    reason |-> SkipReason(row)])
                 /\ folder_data' = folder_data
         /\ processed' = Append(processed, entry.line_num)
  /\ IF chunk_idx < Len(chunk)
     THEN /\ chunk_idx' = chunk_idx + 1
          /\ UNCHANGED <<pc, chunk>>
     ELSE /\ chunk_idx' = 1
          /\ pc' = IF pc = "chunk" THEN "read" ELSE "write"
          /\ chunk' = IF pc = "chunk" THEN <<>> ELSE chunk
  /\ UNCHANGED <<env, folderExists, reader_pos, line_num, server_name,
                 process_log, report>>

\* line 60
ReportHeader == "header"

\* lines 61-69
ReportRow(name, data) ==
  [server_name |-> name, drive |-> data.drive, folder |-> data.folder,
   data_gb |-> RoundGB(data.size), subfolders |-> Cardinality(data.subfolders),
   files |-> data.files]

\* lines 77-79
CompletionMessages == <<"completed", "processed", "log_written">>

\* lines 59-79: the report file and the closing messages.
WriteReport ==
  /\ pc = "write"
  /\ report' = <<ReportHeader>> \o
               [i \in 1..Len(folder_data) |-> ReportRow(server_name, folder_data[i])]
  /\ process_log' = process_log \o CompletionMessages
  /\ pc' = "done"
  /\ UNCHANGED <<env, folderExists, reader_pos, line_num, chunk, chunk_idx,
                 chunk_server_name, server_name, folder_data, processed, error_log>>

Next ==
  \/ StartLog
  \/ StartLogFails
  \/ OpenInput
  \/ OpenInputFails
  \/ ReadRow
  \/ EndOfStream
  \/ ProcessRow
  \/ WriteReport

Spec == Init /\ [][Next]_vars

\* The interpreter runs the script to its end: a step that can be taken is taken.
FairSpec == Spec /\ WF_vars(Next)

TypeOK ==
  /\ pc \in {"start", "open", "read", "chunk", "final_chunk", "write", "done", "raised"}
  /\ chunk_size \in ChunkSizes
  /\ reader_pos \in 0..Len(file)
  /\ chunk_idx \in 1..(Len(chunk) + 1)

\* ------------------------------------------------- vocabulary of the claims
\* The data rows of the file; data row i is on line i + 1.
Data == IF file = <<>> THEN <<>> ELSE Tail(file)

DataLines == 2..(Len(Data) + 1)

RowAt(l) == Data[l - 1]

\* The row process_chunk is about to handle, and its line number.
Handling == pc \in {"chunk", "final_chunk"}

CurrentRow == chunk[chunk_idx].row

CurrentLine == chunk[chunk_idx].line_num

\* The run got to the end of process_csv's try block.
Completed == pc = "done" /\ report # <<>>

ZeroBucket == [size |-> 0, subfolders |-> {}, files |-> 0]

\* The bucket of a key in a store, zero when the key has none.
BucketOf(fd, drive, folder) ==
  IF KeyIndex(fd, drive, folder) = {} THEN ZeroBucket
  ELSE LET b == fd[CHOOSE i \in KeyIndex(fd, drive, folder) : TRUE]
       IN  [size |-> b.size, subfolders |-> b.subfolders, files |-> b.files]

KeyDrive(row) == Decomposed[row].contribution.drive

KeyFolder(row) == Decomposed[row].contribution.folder

\* A row is attributed when it passes the column check and reaches line 119.
Attributed(row) == ~TooFewColumns(row) /\ Decomposed[row].outcome = "ok"

LinesOf(log) == [i \in 1..Len(log) |-> log[i].line]

Increasing(ns) == \A i, j \in 1..Len(ns) : i < j => ns[i] < ns[j]

\* The entries about rows ([SKIPPED] Line n), without the handler's two lines.
RowEntries == SelectSeq(error_log, LAMBDA e : e.line > 0)

EntriesFor(l) == {i \in 1..Len(error_log) : error_log[i].line = l}

\* The store obtained by aggregating a sequence of rows, one after another.
RECURSIVE StoreOf(_)
StoreOf(rows) ==
  IF rows = <<>> THEN <<>>
  ELSE ApplyRow(StoreOf(SubSeq(rows, 1, Len(rows) - 1)), rows[Len(rows)])

\* ---------------------------------------------------------------------- C1
\* C1: when some row is successfully attributed, every data row of the report
\* carries as server identity the stripped first field of the first
\* attributed row.
C1_FirstAttributed ==
  CHOOSE l \in DataLines :
    /\ Attributed(RowAt(l))
    /\ \A m \in DataLines : Attributed(RowAt(m)) => l <= m

C1_ServerIdentity ==
  (Completed /\ \E l \in DataLines : Attributed(RowAt(l)))
    => \A k \in 2..Len(report) :
         report[k].server_name = Strip(RowAt(C1_FirstAttributed)[1])

\* ---------------------------------------------------------------------- C2
\* The parsed size as the claim words it: the value of the leftmost field
\* that is all decimal digits once its quotes are stripped, 0 without one.
C2_NumericFields(row) == {i \in 1..Len(row) : IsDigits(LengthCandidate(row[i]))}

C2_ParsedSize(row) ==
  IF C2_NumericFields(row) = {} THEN 0
  ELSE LET first == CHOOSE i \in C2_NumericFields(row) :
                      \A j \in C2_NumericFields(row) : i <= j
       IN  ParseInt(LengthCandidate(row[first]))

\* C2: handling a row that is attributed to a key raises that key's file
\* count by exactly 1 and its cumulative size by exactly the row's parsed size.
C2_Contribution ==
  [][(Handling /\ Decomposed[CurrentRow].outcome = "ok")
       => LET before == BucketOf(folder_data, KeyDrive(CurrentRow), KeyFolder(CurrentRow))
              after == BucketOf(folder_data', KeyDrive(CurrentRow), KeyFolder(CurrentRow))
          IN  /\ after.files = before.files + 1
              /\ after.size = before.size + C2_ParsedSize(CurrentRow)
              /\ error_log' = error_log]_vars

\* A key that took two rows with sizes, and a key whose row had no numeric field.
C2_Witness ==
  /\ \E i \in 1..Len(folder_data) : folder_data[i].files = 2 /\ folder_data[i].size = 3000
  /\ \E i \in 1..Len(folder_data) : folder_data[i].files = 1 /\ folder_data[i].size = 0

\* ---------------------------------------------------------------------- C3
\* The rejection categories: fewer than 3 fields, no path-bearing field, or
\* a path-bearing field that splits into fewer than 3 parts.
C3_PathFields(row) == {i \in 1..Len(row) : Contains(row[i], BS) /\ Contains(row[i], ".")}

C3_Rejected(row) ==
  \/ Len(row) < 3
  \/ C3_PathFields(row) = {}
  \/ LET first == CHOOSE i \in C3_PathFields(row) : \A j \in C3_PathFields(row) : i <= j
     IN  Len(Split(Strip(row[first]), BS)) < 3

C3_ValidUpTo(n) == SelectSeq(SubSeq(Data, 1, n), LAMBDA r : ~C3_Rejected(r))

\* Lines whose handling is over: the reader's rejections and process_chunk's rows.
C3_Settled == {l \in DataLines : l <= line_num /\ (Len(RowAt(l)) < 3 \/ \E i \in 1..Len(processed) : processed[i] = l)}

\* C3: every settled rejected row has exactly one error-log entry with its
\* line number, no valid row has one, the store is at every moment the store
\* of the valid rows handled so far, and at the end that of the valid rows alone.
C3_Isolation ==
  /\ \A l \in C3_Settled :
       Cardinality(EntriesFor(l)) = IF C3_Rejected(RowAt(l)) THEN 1 ELSE 0
  /\ \A i \in 1..Len(error_log) : error_log[i].line \in C3_Settled \cup {0}
  /\ folder_data = StoreOf(SelectSeq([i \in 1..Len(processed) |-> RowAt(processed[i])],
                                     LAMBDA r : ~C3_Rejected(r)))
  /\ Completed => /\ C3_Settled = DataLines
                  /\ folder_data = StoreOf(C3_ValidUpTo(Len(Data)))

\* A finished run that took both rejected and valid rows.
C3_Witness ==
  /\ Completed
  /\ \E l \in DataLines : C3_Rejected(RowAt(l)) /\ Len(RowAt(l)) >= 3
  /\ \E l \in DataLines : Len(RowAt(l)) < 3
  /\ \E l \in DataLines : ~C3_Rejected(RowAt(l))

\* ---------------------------------------------------------------------- C4
\* Directory segments as the claim counts them: strip the backslashes at both
\* ends of the path, split on backslash, drop the leaf.
C4_StrippedDirCount(path) == Len(Split(StripChars(path, {BS}), BS)) - 1

\* Directory segments of the path split as it stands, leaf dropped.
C4_RawDirCount(path) == Len(Split(path, BS)) - 1

C4_RejectedStep ==
  /\ error_log' = Append(error_log, [line |-> CurrentLine, reason |-> "malformed"])
  /\ folder_data' = folder_data

\* C4 as stated: a row whose path has fewer than 2 directory segments after
\* stripping the backslashes at its ends is rejected as malformed and leaves
\* every bucket alone.
C4_StrippedPathRejected ==
  [][(Handling /\ FindFullName(CurrentRow) # None
        /\ C4_StrippedDirCount(FindFullName(CurrentRow)) < 2)
       => C4_RejectedStep]_vars

\* C4 amended: the count is taken on the path split without stripping its
\* backslashes.  Fewer than 2 segments before the leaf: rejected as malformed,
\* no bucket changes.  Otherwise the row is aggregated, and a path with a
\* single directory behind leading backslashes lands in the bucket whose drive
\* is that directory and whose folder is the sentinel.
C4_RawPathRejected ==
  [][(Handling /\ FindFullName(CurrentRow) # None)
       => IF C4_RawDirCount(FindFullName(CurrentRow)) < 2
          THEN C4_RejectedStep
          ELSE /\ error_log' = error_log
               /\ folder_data' # folder_data
               /\ C4_StrippedDirCount(FindFullName(CurrentRow)) < 2
                    => \E i \in 1..Len(folder_data') :
                         /\ folder_data'[i].folder = NotApplicable
                         /\ folder_data'[i].drive =
                              Split(StripChars(FindFullName(CurrentRow), {BS}), BS)[1]]_vars

\* A malformed path was logged, and a single-directory path got its bucket.
C4_Witness ==
  /\ \E i \in 1..Len(error_log) : error_log[i].reason = "malformed"
  /\ \E i \in 1..Len(folder_data) : folder_data[i].drive = <<"a">>

\* ---------------------------------------------------------------------- C5
\* C5: the run never raises out of process_csv, and once it is past its first
\* write the output folder exists.
C5_FolderCreatedFirst ==
  /\ pc # "raised"
  /\ pc # "start" => folderExists

\* ---------------------------------------------------------------------- C6
\* The rows handled one at a time, without a buffer: the store and the error
\* entries after the first n data rows.
RECURSIVE C6_Unbatched(_)
C6_Unbatched(n) ==
  IF n = 0 THEN [store |-> <<>>, errors |-> <<>>]
  ELSE LET prev == C6_Unbatched(n - 1)
           row == Data[n]
       IN  IF TooFewColumns(row)
           THEN [prev EXCEPT !.errors = Append(@, [line |-> n + 1, reason |-> "too_few_columns"])]
           ELSE IF Decomposed[row].outcome = "ok"
           THEN [prev EXCEPT !.store = ApplyRow(@, row)]
           ELSE [prev EXCEPT !.errors = Append(@, [line |-> n + 1, reason |-> Decomposed[row].outcome])]

C6_Count(log, e) == Cardinality({i \in 1..Len(log) : log[i] = e})

C6_SameBag(a, b) ==
  /\ Len(a) = Len(b)
  /\ \A i \in 1..Len(a) : C6_Count(a, a[i]) = C6_Count(b, a[i])

\* C6: the buffer never holds more than one batch; at the end every row with
\* enough columns was handled exactly once, and the store and the bag of
\* error entries are those of handling the rows one at a time.
C6_BatchingInvisible ==
  /\ Len(chunk) <= chunk_size
  /\ Completed =>
       /\ \A l \in DataLines :
            Cardinality({i \in 1..Len(processed) : processed[i] = l})
              = IF TooFewColumns(RowAt(l)) THEN 0 ELSE 1
       /\ folder_data = C6_Unbatched(Len(Data)).store
       /\ C6_SameBag(error_log, C6_Unbatched(Len(Data)).errors)

\* A finished run whose last batch was a partial one, after a full one.
C6_Witness ==
  /\ Completed
  /\ chunk_size = 2
  /\ Len(processed) = 3
  /\ Len(chunk) = 1
  /\ folder_data # <<>>
  /\ error_log # <<>>

\* ---------------------------------------------------------------------- C7
C7_Drive == <<BS, BS, "S", "R", "V", "1", BS, "S", "h", "a", "r", "e", "A">>

C7_Folder == <<"R", "e", "p", "o", "r", "t", "s">>

C7_Scenario == file = <<HeaderRow, RowFile1, RowFile2>> /\ Completed

\* C7: the header and the two Reports rows give a report of exactly one data
\* row, for (\\SRV1\ShareA, Reports): 3000 bytes, shown as 0.0 GB (3000/1024^3
\* rounded to 2 places), 2 subfolders, 2 files.
C7_EndToEnd ==
  C7_Scenario =>
    /\ Len(report) = 2
    /\ report[1] = ReportHeader
    /\ report[2].drive = C7_Drive
    /\ report[2].folder = C7_Folder
    /\ Len(folder_data) = 1
    /\ folder_data[1].size = 3000
    /\ report[2].data_gb = 0
    /\ report[2].subfolders = 2
    /\ report[2].files = 2
    /\ error_log = <<>>

C7_Witness == C7_Scenario /\ Len(report) = 2

\* ---------------------------------------------------------------------- C8
C8_Usable == folderExists /\ inputOpenable

C8_AllRejected == \A l \in DataLines : ~Attributed(RowAt(l))

\* What the end of a usable run looks like.
C8_Finished ==
  /\ Completed
  /\ process_log = <<"starting", "completed", "processed", "log_written">>

\* C8: with the input openable and the folder usable the run ends with a
\* report; the start message precedes the handling of any row; the closing
\* messages come with the report; and when every data row is rejected the
\* report is the header alone and the error log has one entry per data row.
C8_AlwaysCompletes ==
  /\ C8_Usable ~> C8_Finished
  /\ [](C8_Usable /\ (line_num > 0 \/ processed # <<>> \/ error_log # <<>>)
          => process_log # <<>> /\ process_log[1] = "starting")
  /\ [](Len(process_log) > 1 => report # <<>>)
  /\ [](C8_Usable /\ pc = "done" /\ C8_AllRejected
          => /\ report = <<ReportHeader>>
             /\ folder_data = <<>>
             /\ Len(error_log) = Len(Data)
             /\ \A l \in DataLines : Cardinality(EntriesFor(l)) = 1)

\* A finished run of three data rows, all rejected, one of them by process_chunk.
C8_Witness ==
  /\ C8_Finished
  /\ Len(Data) = 3
  /\ C8_AllRejected
  /\ report = <<ReportHeader>>
  /\ Len(error_log) = 3
  /\ processed # <<>>

\* ---------------------------------------------------------------------- C9
\* The subfolder rule as the claim words it, on the segments of the path.
C9_Segments(path) == Split(StripChars(path, {BS}), BS)

C9_Leaf(path) == C9_Segments(path)[Len(C9_Segments(path))]

C9_Dirs(path) == SubSeq(C9_Segments(path), 1, Len(C9_Segments(path)) - 1)

C9_Generated(path) ==
  [k \in 1..(Len(C9_Dirs(path)) - 3) |-> Join(SubSeq(C9_Dirs(path), 4, k + 3), BS)]

C9_Expected(path) ==
  LET all == C9_Generated(path)
      kept == IF Contains(C9_Leaf(path), ".") THEN SubSeq(all, 1, Len(all) - 1) ELSE all
  IN  {kept[k] : k \in 1..Len(kept)}

\* C9: a row whose path has more than 3 directory segments adds to its key
\* the cumulative subfolder paths from index 3 on, without the deepest one
\* exactly when the leaf segment contains a period.
C9_LeafDecidesDiscard ==
  [][(Handling /\ Decomposed[CurrentRow].outcome = "ok"
        /\ Len(C9_Dirs(FindFullName(CurrentRow))) > 3)
       => BucketOf(folder_data', KeyDrive(CurrentRow), KeyFolder(CurrentRow)).subfolders
            = BucketOf(folder_data, KeyDrive(CurrentRow), KeyFolder(CurrentRow)).subfolders
                \cup C9_Expected(FindFullName(CurrentRow))]_vars

\* --------------------------------------------------------------------- C10
\* C10 as stated: no row waits in the buffer while the next one is read, and
\* the error log is in increasing line-number order.
C10_OneRowAtATime ==
  /\ pc = "read" => chunk = <<>>
  /\ Increasing(LinesOf(RowEntries))

C10_ReaderEntries == SelectSeq(error_log, LAMBDA e : e.reason = "too_few_columns")

C10_ChunkEntries ==
  SelectSeq(error_log, LAMBDA e : e.reason \in {"missing_fullname", "malformed"})

\* C10 amended: rows wait in the buffer, fewer than chunk_size of them while
\* the reader runs; process_chunk handles the buffered rows strictly one at a
\* time in the order read, each row before the next batch is read, so the rows
\* are handled in increasing line-number order; the error entries of
\* process_chunk are in increasing line-number order, and so are those of the
\* reader's column check, but the two kinds interleave out of order unless
\* chunk_size is 1.
C10_OneRowAtATimePerBatch ==
  /\ pc = "read" => Len(chunk) < chunk_size
  /\ Increasing(processed)
  /\ Handling => /\ \A i \in 1..(chunk_idx - 1) :
                      \E k \in 1..Len(processed) : processed[k] = chunk[i].line_num
                 /\ \A i \in chunk_idx..Len(chunk) :
                      \A k \in 1..Len(processed) : processed[k] < chunk[i].line_num
  /\ pc = "read" => \A i \in 1..Len(chunk) :
                      \A k \in 1..Len(processed) : processed[k] < chunk[i].line_num
  /\ Increasing(LinesOf(C10_ChunkEntries))
  /\ Increasing(LinesOf(C10_ReaderEntries))
  /\ chunk_size = 1 => Increasing(LinesOf(RowEntries))

\* The error log holds a later line before an earlier one.
C10_Witness ==
  /\ Len(error_log) >= 2
  /\ error_log[1].line > error_log[2].line
  /\ error_log[1].reason = "too_few_columns"

====
